---- MODULE Spec2Model ----
(***************************************************************************)
(* The checkly client (src/checkly.go, src/types.go): a Client whose four  *)
(* operations Create, Update, Delete and Get each marshal a Check, make    *)
(* one call of MakeAPICall and interpret the status code and the body.     *)
(*                                                                         *)
(* Text is a sequence of tokens, so that "+" is \o.  A JSON document is a  *)
(* parse tree: an object is the sequence of its members in the order they  *)
(* are written (a key may be written twice, or in another case).  An error *)
(* is the fmt.Errorf format with its arguments; the nil error is nil.      *)
(* Whatever the network and the server do in one call is a record e (the   *)
(* exchange), chosen when the call is made.                                *)
(***************************************************************************)
EXTENDS Integers, Sequences, FiniteSets, TLC

VARIABLES c, pc, call, env, ret

vars == <<c, pc, call, env, ret>>

\* The longest JSON object, in members, that a server answers with.
MaxPairs == 2

StatusOK == 200
StatusCreated == 201
StatusNoContent == 204

MethodPost == "POST"
MethodPut == "PUT"
MethodDelete == "DELETE"
MethodGet == "GET"

---------------------------------------------------------------------------
\* JSON values: a string, a number, null or an object.

JStr(x) == [t |-> "str", s |-> x, n |-> 0, o |-> <<>>]
JNum(x) == [t |-> "num", s |-> "", n |-> x, o |-> <<>>]
JNull == [t |-> "null", s |-> "", n |-> 0, o |-> <<>>]
JObj(ps) == [t |-> "obj", s |-> "", n |-> 0, o |-> ps]
Pair(key, val) == [k |-> key, v |-> val]

\* A body: the empty text, text that is no JSON, the document null, or an object.
EmptyBody == [kind |-> "empty", pairs |-> <<>>]
GarbageBody == [kind |-> "garbage", pairs |-> <<>>]
NullBody == [kind |-> "null", pairs |-> <<>>]
ObjectBody(ps) == [kind |-> "object", pairs |-> ps]

---------------------------------------------------------------------------
\* Errors.

Errorf(format, status, body, cause) ==
    [fmt |-> format, status |-> status, body |-> body, cause |-> cause]

\* An error of a library, returned as it is: its message is the cause alone.
LibError(cause) == Errorf("", 0, EmptyBody, cause)

nil == LibError("")

---------------------------------------------------------------------------
\* Check, Request and the zero values of Check{}.

ZeroRequest == [URL |-> ""]

ZeroCheck == [ID |-> "", CreatedAt |-> 1, Request |-> ZeroRequest]

---------------------------------------------------------------------------
\* encoding/json, as Create, Update and Get use it on a Check.

\* time.Time on the wire is an RFC 3339 string.
Timestamps ==
    { [year |-> 1, text |-> "0001-01-01T00:00:00Z"],
      [year |-> 2020, text |-> "2020-06-01T12:00:00Z"] }

FormatTime(year) == (CHOOSE r \in Timestamps : r.year = year).text

IsTimestamp(text) == \E r \in Timestamps : r.text = text

ParseTime(text) == (CHOOSE r \in Timestamps : r.text = text).year

\* The struct tag a member's key selects: the match does not look at case.
Fold(key) ==
    CASE key = "ID" -> "id"
      [] key = "URL" -> "url"
      [] OTHER -> key

\* The decoder keeps the first error it meets and goes on.
saveError(saved, cause) == IF saved = "" THEN cause ELSE saved

\* decodeRequest with the url tag lost: no member reaches Request.URL.
decodeRequestUntagged(r, ps) == r

RECURSIVE decodeRequest(_, _)
\* The members of a "request" object, in order, into the Request r.v.
decodeRequest(r, ps) ==
    IF ps = <<>> THEN r
    ELSE LET p == Head(ps)
             r1 == IF Fold(p.k) # "url" THEN r
                   ELSE CASE p.v.t = "str" -> [r EXCEPT !.v.URL = p.v.s]
                          [] p.v.t = "null" -> r
                          [] OTHER ->
                             [r EXCEPT !.err = saveError(r.err,
                                 "json: cannot unmarshal into Go struct field Request.url of type string")]
         IN decodeRequest(r1, Tail(ps))

RECURSIVE decodeCheck(_, _)
\* The members of the document, in order, into the Check r.v.
decodeCheck(r, ps) ==
    IF ps = <<>> THEN r
    ELSE LET p == Head(ps)
             f == Fold(p.k)
             r1 == CASE p.v.t = "null" -> r
                     [] f = "id" ->
                        IF p.v.t = "str" THEN [r EXCEPT !.v.ID = p.v.s]
                        ELSE [r EXCEPT !.err = saveError(r.err,
                                 "json: cannot unmarshal into Go struct field Check.id of type string")]
                     [] f = "created_at" ->
                        IF p.v.t = "str" /\ IsTimestamp(p.v.s)
                        THEN [r EXCEPT !.v.CreatedAt = ParseTime(p.v.s)]
                        ELSE [r EXCEPT !.err = saveError(r.err, "parsing time: cannot parse")]
                     [] f = "request" ->
                        IF p.v.t = "obj"
                        THEN LET q == decodeRequest([v |-> r.v.Request, err |-> r.err], p.v.o)
                             IN [r EXCEPT !.v.Request = q.v, !.err = q.err]
                        ELSE [r EXCEPT !.err = saveError(r.err,
                                 "json: cannot unmarshal into Go struct field Check.request of type checkly.Request")]
                     [] OTHER -> r
         IN decodeCheck(r1, Tail(ps))

\* json.NewDecoder(strings.NewReader(res)).Decode(&check), check being Check{}:
\* the Check and the decoder's error ("" when there is none).
Decode(res) ==
    CASE res.kind = "empty" -> [v |-> ZeroCheck, err |-> "EOF"]
      [] res.kind = "garbage" ->
         [v |-> ZeroCheck, err |-> "invalid character looking for beginning of value"]
      [] res.kind = "null" -> [v |-> ZeroCheck, err |-> ""]
      [] OTHER -> decodeCheck([v |-> ZeroCheck, err |-> ""], res.pairs)

\* json.Marshal(check): the document and the error.  A time.Time whose year is
\* outside [0,9999] has no RFC 3339 form, and MarshalJSON refuses it.
Marshal(check) ==
    IF check.CreatedAt < 0 \/ check.CreatedAt > 9999
    THEN [data |-> EmptyBody,
          err |-> LibError("json: error calling MarshalJSON for type time.Time: year outside of range [0,9999]")]
    ELSE [data |-> ObjectBody(<<Pair("id", JStr(check.ID)),
                                Pair("created_at", JStr(FormatTime(check.CreatedAt))),
                                Pair("request", JObj(<<Pair("url", JStr(check.Request.URL))>>))>>),
          err |-> nil]

---------------------------------------------------------------------------
\* Transport.

\* url.Parse, as http.NewRequest calls it, refuses a bad percent-escape.
BadEscape == "%zz"

\* http.NewRequest(method, requestURL, body) fails on a method that is no
\* token or on a URL that does not parse.
NewRequestFails(method, requestURL) ==
    \/ method \notin {MethodPost, MethodPut, MethodDelete, MethodGet}
    \/ \E i \in 1..Len(requestURL) : requestURL[i] = BadEscape

\* NewRequest with the method dropped: every request goes out as a GET.
NewRequestAsGet(cl, method, requestURL, data) ==
    [method |-> MethodGet, url |-> requestURL, data |-> data,
     authorization |-> <<"Bearer ", cl.apiKey>>,
     contentType |-> "application/json"]

\* The request MakeAPICall builds: http.NewRequest and the two headers.
NewRequest(cl, method, requestURL, data) ==
    [method |-> method, url |-> requestURL, data |-> data,
     authorization |-> <<"Bearer ", cl.apiKey>>,
     contentType |-> "application/json"]

\* c.dumpResponse(resp): what it writes to c.Debug.  A failure of
\* httputil.DumpResponse is dropped and the empty dump is written; the
\* response is left for ioutil.ReadAll as it was.
dumpResponse(cl, e) ==
    IF e.readErr \/ e.dumpRespErr THEN <<"">> ELSE <<"response dump">>

\* MakeAPICall reporting a request it could not build as one it could not send.
MakeAPICallOneMessage(cl, method, URL, data, e) ==
    LET requestURL == cl.URL \o <<"/v1/">> \o URL
        req == NewRequest(cl, method, requestURL, data)
    IN IF NewRequestFails(method, requestURL)
       THEN [statusCode |-> 0, response |-> EmptyBody,
             err |-> Errorf("HTTP request failed: %v", 0, EmptyBody,
                            "parse: invalid URL escape"),
             sent |-> <<>>, debug |-> <<>>]
       ELSE IF cl.Debug /\ e.dumpReqErr
       THEN [statusCode |-> 0, response |-> EmptyBody,
             err |-> Errorf("error dumping HTTP request: %v", 0, EmptyBody,
                            "unsupported protocol scheme"),
             sent |-> <<>>, debug |-> <<>>]
       ELSE LET dumped == IF cl.Debug THEN <<"request dump">> ELSE <<>>
            IN IF e.do = "err"
               THEN [statusCode |-> 0, response |-> EmptyBody,
                     err |-> Errorf("HTTP request failed: %v", 0, EmptyBody, e.cause),
                     sent |-> <<req>>, debug |-> dumped]
               ELSE LET traced == IF cl.Debug THEN dumped \o dumpResponse(cl, e)
                                  ELSE dumped
                    IN IF e.readErr
                       THEN [statusCode |-> e.status, response |-> EmptyBody,
                             err |-> LibError(e.cause),
                             sent |-> <<req>>, debug |-> traced]
                       ELSE [statusCode |-> e.status, response |-> e.body,
                             err |-> nil, sent |-> <<req>>, debug |-> traced]

\* MakeAPICall sending the request a second time when the first send fails.
MakeAPICallRetries(cl, method, URL, data, e) ==
    LET requestURL == cl.URL \o <<"/v1/">> \o URL
        req == NewRequest(cl, method, requestURL, data)
    IN IF NewRequestFails(method, requestURL)
       THEN [statusCode |-> 0, response |-> EmptyBody,
             err |-> Errorf("failed to create HTTP request: %v", 0, EmptyBody,
                            "parse: invalid URL escape"),
             sent |-> <<>>, debug |-> <<>>]
       ELSE IF cl.Debug /\ e.dumpReqErr
       THEN [statusCode |-> 0, response |-> EmptyBody,
             err |-> Errorf("error dumping HTTP request: %v", 0, EmptyBody,
                            "unsupported protocol scheme"),
             sent |-> <<>>, debug |-> <<>>]
       ELSE LET dumped == IF cl.Debug THEN <<"request dump">> ELSE <<>>
            IN IF e.do = "err"
               THEN [statusCode |-> 0, response |-> EmptyBody,
                     err |-> Errorf("HTTP request failed: %v", 0, EmptyBody, e.cause),
                     sent |-> <<req, req>>, debug |-> dumped]
               ELSE LET traced == IF cl.Debug THEN dumped \o dumpResponse(cl, e)
                                  ELSE dumped
                    IN IF e.readErr
                       THEN [statusCode |-> e.status, response |-> EmptyBody,
                             err |-> LibError(e.cause),
                             sent |-> <<req>>, debug |-> traced]
                       ELSE [statusCode |-> e.status, response |-> e.body,
                             err |-> nil, sent |-> <<req>>, debug |-> traced]

\* c.MakeAPICall(method, URL, data) in the exchange e: the three results, the
\* requests handed to c.HTTPClient.Do and what was written to c.Debug.
MakeAPICall(cl, method, URL, data, e) ==
    LET requestURL == cl.URL \o <<"/v1/">> \o URL
        req == NewRequest(cl, method, requestURL, data)
    IN IF NewRequestFails(method, requestURL)
       THEN [statusCode |-> 0, response |-> EmptyBody,
             err |-> Errorf("failed to create HTTP request: %v", 0, EmptyBody,
                            "parse: invalid URL escape"),
             sent |-> <<>>, debug |-> <<>>]
       ELSE IF cl.Debug /\ e.dumpReqErr
       THEN [statusCode |-> 0, response |-> EmptyBody,
             err |-> Errorf("error dumping HTTP request: %v", 0, EmptyBody,
                            "unsupported protocol scheme"),
             sent |-> <<>>, debug |-> <<>>]
       ELSE LET dumped == IF cl.Debug THEN <<"request dump">> ELSE <<>>
            IN IF e.do = "err"
               THEN [statusCode |-> 0, response |-> EmptyBody,
                     err |-> Errorf("HTTP request failed: %v", 0, EmptyBody, e.cause),
                     sent |-> <<req>>, debug |-> dumped]
               ELSE LET traced == IF cl.Debug THEN dumped \o dumpResponse(cl, e)
                                  ELSE dumped
                    IN IF e.readErr
                       THEN [statusCode |-> e.status, response |-> EmptyBody,
                             err |-> LibError(e.cause),
                             sent |-> <<req>>, debug |-> traced]
                       ELSE [statusCode |-> e.status, response |-> e.body,
                             err |-> nil, sent |-> <<req>>, debug |-> traced]

---------------------------------------------------------------------------
\* Resource operations: what each returns, with the requests it sent.

\* api is the calls of MakeAPICall the operation made, each with what it returned.
Result(id, check, err, api) == [ID |-> id, check |-> check, err |-> err, api |-> api]

Called(method, URL, data, r) == <<[method |-> method, URL |-> URL, data |-> data, ret |-> r]>>

\* Create taking 200 for its success status, as TestCreate answers.
CreateOnOK(cl, check, e) ==
    LET m == Marshal(check)
        r == MakeAPICall(cl, MethodPost, <<"checks">>, m.data, e)
        d == Decode(r.response)
        api == Called(MethodPost, <<"checks">>, m.data, r)
    IN IF m.err # nil THEN Result("", ZeroCheck, m.err, <<>>)
       ELSE IF r.err # nil THEN Result("", ZeroCheck, r.err, api)
       ELSE IF r.statusCode # StatusOK
       THEN Result("", ZeroCheck,
                   Errorf("unexpected response status %d: %q", r.statusCode, r.response, ""),
                   api)
       ELSE IF d.err # ""
       THEN Result("", ZeroCheck,
                   Errorf("decoding error for data %s: %v", 0, r.response, d.err), api)
       ELSE Result(d.v.ID, ZeroCheck, nil, api)

Create(cl, check, e) ==
    LET m == Marshal(check)
        r == MakeAPICall(cl, MethodPost, <<"checks">>, m.data, e)
        d == Decode(r.response)
        api == Called(MethodPost, <<"checks">>, m.data, r)
    IN IF m.err # nil THEN Result("", ZeroCheck, m.err, <<>>)
       ELSE IF r.err # nil THEN Result("", ZeroCheck, r.err, api)
       ELSE IF r.statusCode # StatusCreated
       THEN Result("", ZeroCheck,
                   Errorf("unexpected response status %d: %q", r.statusCode, r.response, ""),
                   api)
       ELSE IF d.err # ""
       THEN Result("", ZeroCheck,
                   Errorf("decoding error for data %s: %v", 0, r.response, d.err), api)
       ELSE Result(d.v.ID, ZeroCheck, nil, api)

\* Update sending the request whether or not the Check could be encoded.
UpdateSendsAnyway(cl, ID, check, e) ==
    LET m == Marshal(check)
        r == MakeAPICall(cl, MethodPut, <<"checks/", ID>>, m.data, e)
        d == Decode(r.response)
        api == Called(MethodPut, <<"checks/", ID>>, m.data, r)
    IN IF r.err # nil THEN Result("", ZeroCheck, r.err, api)
       ELSE IF r.statusCode # StatusOK
       THEN Result("", ZeroCheck,
                   Errorf("unexpected response status %d: %q", r.statusCode, r.response, ""),
                   api)
       ELSE IF d.err # ""
       THEN Result("", ZeroCheck,
                   Errorf("decoding error for data %s: %v", 0, r.response, d.err), api)
       ELSE Result("", ZeroCheck, nil, api)

\* Update not decoding the body of a 200 response, whose Check it does not use.
UpdateSkipsDecode(cl, ID, check, e) ==
    LET m == Marshal(check)
        r == MakeAPICall(cl, MethodPut, <<"checks/", ID>>, m.data, e)
        d == Decode(r.response)
        api == Called(MethodPut, <<"checks/", ID>>, m.data, r)
    IN IF m.err # nil THEN Result("", ZeroCheck, m.err, <<>>)
       ELSE IF r.err # nil THEN Result("", ZeroCheck, r.err, api)
       ELSE IF r.statusCode # StatusOK
       THEN Result("", ZeroCheck,
                   Errorf("unexpected response status %d: %q", r.statusCode, r.response, ""),
                   api)
       ELSE Result("", ZeroCheck, nil, api)

Update(cl, ID, check, e) ==
    LET m == Marshal(check)
        r == MakeAPICall(cl, MethodPut, <<"checks/", ID>>, m.data, e)
        d == Decode(r.response)
        api == Called(MethodPut, <<"checks/", ID>>, m.data, r)
    IN IF m.err # nil THEN Result("", ZeroCheck, m.err, <<>>)
       ELSE IF r.err # nil THEN Result("", ZeroCheck, r.err, api)
       ELSE IF r.statusCode # StatusOK
       THEN Result("", ZeroCheck,
                   Errorf("unexpected response status %d: %q", r.statusCode, r.response, ""),
                   api)
       ELSE IF d.err # ""
       THEN Result("", ZeroCheck,
                   Errorf("decoding error for data %s: %v", 0, r.response, d.err), api)
       ELSE Result("", ZeroCheck, nil, api)

\* Delete taking 200 for its success status.
DeleteOnOK(cl, ID, e) ==
    LET r == MakeAPICall(cl, MethodDelete, <<"checks/", ID>>, EmptyBody, e)
        api == Called(MethodDelete, <<"checks/", ID>>, EmptyBody, r)
    IN IF r.err # nil THEN Result("", ZeroCheck, r.err, api)
       ELSE IF r.statusCode # StatusOK
       THEN Result("", ZeroCheck,
                   Errorf("unexpected response status %d: %q", r.statusCode, r.response, ""),
                   api)
       ELSE Result("", ZeroCheck, nil, api)

Delete(cl, ID, e) ==
    LET r == MakeAPICall(cl, MethodDelete, <<"checks/", ID>>, EmptyBody, e)
        api == Called(MethodDelete, <<"checks/", ID>>, EmptyBody, r)
    IN IF r.err # nil THEN Result("", ZeroCheck, r.err, api)
       ELSE IF r.statusCode # StatusNoContent
       THEN Result("", ZeroCheck,
                   Errorf("unexpected response status %d: %q", r.statusCode, r.response, ""),
                   api)
       ELSE Result("", ZeroCheck, nil, api)

Get(cl, ID, e) ==
    LET r == MakeAPICall(cl, MethodGet, <<"checks/", ID>>, EmptyBody, e)
        d == Decode(r.response)
        api == Called(MethodGet, <<"checks/", ID>>, EmptyBody, r)
    IN IF r.err # nil THEN Result("", ZeroCheck, r.err, api)
       ELSE IF r.statusCode # StatusOK
       THEN Result("", ZeroCheck,
                   Errorf("unexpected response status %d: %q", r.statusCode, r.response, ""),
                   api)
       ELSE IF d.err # ""
       THEN Result("", ZeroCheck,
                   Errorf("decoding error for data %s: %v", 0, r.response, d.err), api)
       ELSE Result("", d.v, nil, api)

---------------------------------------------------------------------------
\* What the callers and the server may supply.

DefaultURL == <<"https://api.checklyhq.com">>

\* Values of the URL field: the default, and one that does not parse.
BaseURLs == {DefaultURL, <<"https://api", BadEscape>>}

IDs == {"73d29e72", "0f4c1a2b"}

\* Checks to create or update with: the second has no JSON form.
Checks ==
    { [ID |-> "", CreatedAt |-> 2020, Request |-> [URL |-> "u1"]],
      [ID |-> "", CreatedAt |-> 10000, Request |-> [URL |-> "u1"]] }

Statuses == {StatusOK, StatusCreated, StatusNoContent, 500}

\* Members of a "request" object, and the objects a server writes with them.
ReqPairs ==
    { Pair("url", JStr("u1")), Pair("url", JStr("u2")),
      Pair("URL", JStr("u2")), Pair("url", JNum(7)) }

ReqObjects ==
    {<<>>} \cup {<<p>> : p \in ReqPairs}
           \cup {<<p, q>> : p, q \in {Pair("url", JStr("u1")), Pair("url", JStr("u2"))}}

\* Members of a response document.
TopPairs ==
    { Pair("id", JStr("i1")), Pair("id", JStr("i2")), Pair("ID", JStr("i2")),
      Pair("id", JNum(7)), Pair("id", JNull),
      Pair("created_at", JStr("2020-06-01T12:00:00Z")), Pair("name", JStr("i1")) }
    \cup {Pair("request", JObj(o)) : o \in ReqObjects}

Bodies ==
    {EmptyBody, GarbageBody, NullBody}
    \cup {ObjectBody(ps) : ps \in UNION {[1..n -> TopPairs] : n \in 0..MaxPairs}}

\* One exchange: whether dumping the request or the response fails, and what
\* c.HTTPClient.Do and the reading of the body come to.  do is "none" when the
\* exchange ends before the request is sent.
Exchange(dumpReqErr, dumpRespErr, do, status, body, readErr, cause) ==
    [dumpReqErr |-> dumpReqErr, dumpRespErr |-> dumpRespErr, do |-> do,
     status |-> status, body |-> body, readErr |-> readErr, cause |-> cause]

NoExchange == Exchange(FALSE, FALSE, "none", 0, EmptyBody, FALSE, "")

\* The exchanges a call of MakeAPICall(method, URL, ...) by the client cl can
\* meet.  No exchange takes place for a request that cannot be built.  The
\* dumps are made, and so can fail, only when cl.Debug is set; a body that
\* breaks off while it is read breaks off in the dump too.
Exchanges(cl, method, URL) ==
    IF NewRequestFails(method, cl.URL \o <<"/v1/">> \o URL) THEN {NoExchange}
    ELSE LET flags == {FALSE, cl.Debug}
         IN {Exchange(a, FALSE, "err", 0, EmptyBody, FALSE, "dial tcp: connection refused") :
                a \in flags}
            \cup {Exchange(a, cl.Debug, "resp", s, EmptyBody, TRUE, "unexpected EOF") :
                     a \in flags, s \in Statuses}
            \cup {Exchange(a, b, "resp", s, body, FALSE, "") :
                     a \in flags, b \in flags, s \in Statuses, body \in Bodies}

---------------------------------------------------------------------------
\* The client and its callers.  A call is made when none is in progress; the
\* operation runs to its return, and the caller then takes the result.

\* os.LookupEnv gives the values of the variable: one, or none when it is unset.
getEnv(values, fallback) == IF values # {} THEN CHOOSE v \in values : TRUE ELSE fallback

\* NewClient(apiKey), CHECKLY_API_URL having the values given.
NewClient(apiKey, values) ==
    [apiKey |-> apiKey, URL |-> getEnv(values, DefaultURL), Debug |-> FALSE]

NoCall == [op |-> "none", ID |-> "", check |-> ZeroCheck]

NoResult == Result("", ZeroCheck, nil, <<>>)

Init ==
    /\ \E values \in {{}} \cup {{u} : u \in BaseURLs} : c = NewClient("dummy", values)
    /\ pc = "idle"
    /\ call = NoCall
    /\ env = NoExchange
    /\ ret = NoResult

\* client.URL = u, as the tests and getEnv do.
SetURL ==
    /\ pc = "idle"
    /\ \E u \in BaseURLs : c' = [c EXCEPT !.URL = u]
    /\ UNCHANGED <<pc, call, env, ret>>

\* client.Debug = w, or nil.
SetDebug ==
    /\ pc = "idle"
    /\ \E b \in BOOLEAN : c' = [c EXCEPT !.Debug = b]
    /\ UNCHANGED <<pc, call, env, ret>>

CallCreate ==
    /\ pc = "idle"
    /\ \E check \in Checks :
       \E e \in IF Marshal(check).err # nil THEN {NoExchange}
                ELSE Exchanges(c, MethodPost, <<"checks">>) :
          /\ call' = [op |-> "Create", ID |-> "", check |-> check]
          /\ env' = e
          /\ ret' = Create(c, check, e)
    /\ pc' = "returned"
    /\ UNCHANGED c

CallUpdate ==
    /\ pc = "idle"
    /\ \E ID \in IDs, check \in Checks :
       \E e \in IF Marshal(check).err # nil THEN {NoExchange}
                ELSE Exchanges(c, MethodPut, <<"checks/", ID>>) :
          /\ call' = [op |-> "Update", ID |-> ID, check |-> check]
          /\ env' = e
          /\ ret' = Update(c, ID, check, e)
    /\ pc' = "returned"
    /\ UNCHANGED c

CallDelete ==
    /\ pc = "idle"
    /\ \E ID \in IDs :
       \E e \in Exchanges(c, MethodDelete, <<"checks/", ID>>) :
          /\ call' = [op |-> "Delete", ID |-> ID, check |-> ZeroCheck]
          /\ env' = e
          /\ ret' = Delete(c, ID, e)
    /\ pc' = "returned"
    /\ UNCHANGED c

CallGet ==
    /\ pc = "idle"
    /\ \E ID \in IDs :
       \E e \in Exchanges(c, MethodGet, <<"checks/", ID>>) :
          /\ call' = [op |-> "Get", ID |-> ID, check |-> ZeroCheck]
          /\ env' = e
          /\ ret' = Get(c, ID, e)
    /\ pc' = "returned"
    /\ UNCHANGED c

\* The caller takes the result; the client keeps nothing of the call.
Return ==
    /\ pc = "returned"
    /\ pc' = "idle"
    /\ call' = NoCall
    /\ env' = NoExchange
    /\ ret' = NoResult
    /\ UNCHANGED c

Next ==
    \/ SetURL
    \/ SetDebug
    \/ CallCreate
    \/ CallUpdate
    \/ CallDelete
    \/ CallGet
    \/ Return

Spec == Init /\ [][Next]_vars

---------------------------------------------------------------------------
\* The vocabulary of the properties.

Returned(op) == pc = "returned" /\ call.op = op

RECURSIVE Requests(_)
\* The requests handed to the HTTP client by the calls of MakeAPICall in api.
Requests(api) == IF api = <<>> THEN <<>> ELSE Head(api).ret.sent \o Requests(Tail(api))

Sent == Requests(ret.api)

\* A response arrived for the request of the call; its body was read to the end.
GotResponse == Sent # <<>> /\ env.do = "resp"

BodyRead == GotResponse /\ ~env.readErr

Max(S) == CHOOSE x \in S : \A y \in S : y <= x

Encodable(check) == check.CreatedAt \in 0..9999

WellTypedMember(p) ==
    \/ p.v.t = "null"
    \/ CASE Fold(p.k) = "id" -> p.v.t = "str"
         [] Fold(p.k) = "created_at" -> p.v.t = "str" /\ IsTimestamp(p.v.s)
         [] Fold(p.k) = "request" ->
            /\ p.v.t = "obj"
            /\ \A j \in 1..Len(p.v.o) :
                  Fold(p.v.o[j].k) = "url" => p.v.o[j].v.t \in {"str", "null"}
         [] OTHER -> TRUE

\* The body is a JSON document that a Check can take.
Decodable(b) ==
    \/ b.kind = "null"
    \/ b.kind = "object" /\ \A i \in 1..Len(b.pairs) : WellTypedMember(b.pairs[i])

NoRepeatedKeys(ps) ==
    \A i, j \in 1..Len(ps) : i # j => Fold(ps[i].k) # Fold(ps[j].k)

\* A Check as a server writes it: an object, every field written at most once.
ValidCheckBody(b) ==
    /\ b.kind = "object"
    /\ Decodable(b)
    /\ NoRepeatedKeys(b.pairs)
    /\ \A i \in 1..Len(b.pairs) : NoRepeatedKeys(b.pairs[i].v.o)

\* The string the members ps give the field named key: that of the last member
\* that gives it one, and the empty string when none does.
StringField(ps, key) ==
    LET I == {i \in 1..Len(ps) : Fold(ps[i].k) = key /\ ps[i].v.t = "str"}
    IN IF I = {} THEN "" ELSE ps[Max(I)].v.s

IdField(b) == StringField(b.pairs, "id")

UrlField(b) ==
    LET I == {i \in 1..Len(b.pairs) :
                 Fold(b.pairs[i].k) = "request" /\ b.pairs[i].v.t = "obj"}
    IN IF I = {} THEN "" ELSE StringField(b.pairs[Max(I)].v.o, "url")

YearField(b) ==
    LET text == StringField(b.pairs, "created_at")
    IN IF text = "" THEN 1 ELSE ParseTime(text)

MessageHasStatus(err, status) ==
    err.fmt = "unexpected response status %d: %q" /\ err.status = status

IsUnexpectedStatus(err) ==
    err = Errorf("unexpected response status %d: %q", env.status, env.body, "")

IsDecodingError(err) ==
    err.fmt = "decoding error for data %s: %v" /\ err.body = env.body /\ err.cause # ""

WantMethod(op) ==
    CASE op = "Create" -> "POST"
      [] op = "Get" -> "GET"
      [] op = "Update" -> "PUT"
      [] op = "Delete" -> "DELETE"

WantPath(op, ID) == IF op = "Create" THEN <<"checks">> ELSE <<"checks/", ID>>

WantStatus(op) ==
    CASE op = "Create" -> 201
      [] op = "Get" -> 200
      [] op = "Update" -> 200
      [] op = "Delete" -> 204

Triple(r) == <<r.statusCode, r.response, r.err>>

\* Of the call of MakeAPICall the operation made: which step of it failed.
ConstructionFailed == \E i \in 1..Len(c.URL) : c.URL[i] = "%zz"

SendFailed == Sent # <<>> /\ env.do = "err"

ReadFailed == GotResponse /\ env.readErr

---------------------------------------------------------------------------
\* Properties.

C2_CreateSucceedsOn200 ==
    (Returned("Create") /\ BodyRead /\ env.status = 200 /\ Decodable(env.body))
       => (ret.err = nil /\ ret.ID = IdField(env.body))

\* C3, as claimed: on a response with status 204 Delete returns nil, and on a
\* response with any other status an error whose message has that status.
C3_DeleteByStatus ==
    (Returned("Delete") /\ GotResponse) =>
       IF env.status = 204 THEN ret.err = nil
       ELSE ret.err # nil /\ MessageHasStatus(ret.err, env.status)

\* C3, amended: that holds of the responses whose body was read to the end,
\* whatever the body; when reading the body fails Delete returns the read
\* error, whatever the status.
C3_DeleteByStatusOnceRead ==
    Returned("Delete") =>
       /\ BodyRead => IF env.status = 204 THEN ret.err = nil
                      ELSE ret.err # nil /\ MessageHasStatus(ret.err, env.status)
       /\ ReadFailed => ret.err = LibError(env.cause)

C3_Witness ==
    /\ Returned("Delete") /\ BodyRead /\ env.status = 204
    /\ env.body.kind = "object" /\ env.body.pairs # <<>> /\ ret.err = nil

\* C4: on status 200 and a valid Check body, Get returns nil and a Check whose
\* fields, the nested Request.URL among them, are the values in the body.
C4_GetDecodesBody ==
    (Returned("Get") /\ BodyRead /\ env.status = 200 /\ ValidCheckBody(env.body)) =>
       /\ ret.err = nil
       /\ ret.check.ID = IdField(env.body)
       /\ ret.check.CreatedAt = YearField(env.body)
       /\ ret.check.Request.URL = UrlField(env.body)

C4_Witness ==
    /\ Returned("Get") /\ BodyRead /\ env.status = 200 /\ ValidCheckBody(env.body)
    /\ ret.check.ID = "i1" /\ ret.check.Request.URL = "u2"

\* C5: every request sent has the method of the operation and the URL
\* base + "/v1/" + path: POST checks for Create, and GET, PUT and DELETE
\* checks/{id} for Get, Update and Delete, {id} being the ID of the call.
C5_MethodAndPath ==
    pc = "returned" =>
       \A i \in 1..Len(Sent) :
          /\ Sent[i].method = WantMethod(call.op)
          /\ Sent[i].url = c.URL \o <<"/v1/">> \o WantPath(call.op, call.ID)

C5_Witness ==
    Returned("Update") /\ Len(Sent) = 1 /\ call.ID = "0f4c1a2b" /\ ret.err = nil

\* C6: when the Check given to Update or Create cannot be encoded, the call
\* returns an error and sends no request.
C6_EncodeFailsBeforeSend ==
    (pc = "returned" /\ call.op \in {"Create", "Update"} /\ ~Encodable(call.check)) =>
       (ret.err # nil /\ ret.api = <<>> /\ Sent = <<>>)

C6_Witness ==
    Returned("Update") /\ ~Encodable(call.check) /\ ret.err # nil /\ Sent = <<>>

\* C7: in every exchange MakeAPICall returns the same status code, body and
\* error with c.Debug set as with c.Debug nil, a failing dump included.
C7_TracingChangesNothing ==
    (pc = "returned" /\ ret.api # <<>>) =>
       LET a == ret.api[1]
       IN Triple(MakeAPICall([c EXCEPT !.Debug = TRUE], a.method, a.URL, a.data, env))
          = Triple(MakeAPICall([c EXCEPT !.Debug = FALSE], a.method, a.URL, a.data, env))

\* C8, as claimed: a failure to build the request, to send it and to read the
\* body each give an error of its own kind, whose message names the step and
\* wraps the cause.
C8_ThreeWrappedErrors ==
    (pc = "returned" /\ ret.api # <<>>) =>
       LET r == ret.api[1].ret
       IN /\ ConstructionFailed =>
                r.err.fmt = "failed to create HTTP request: %v" /\ r.err.cause # ""
          /\ SendFailed =>
                r.err.fmt = "HTTP request failed: %v" /\ r.err.cause = env.cause
          /\ ReadFailed =>
                /\ r.err.fmt \notin {"", "failed to create HTTP request: %v",
                                     "HTTP request failed: %v"}
                /\ r.err.cause = env.cause

\* C8, amended: a failure to build the request and a failure to send it give
\* two different messages that name the step and wrap the cause; a failure to
\* read the body gives the read error itself, with the status code received.
C8_ErrorsByStep ==
    (pc = "returned" /\ ret.api # <<>>) =>
       LET r == ret.api[1].ret
       IN /\ ConstructionFailed =>
                r.err.fmt = "failed to create HTTP request: %v" /\ r.err.cause # ""
          /\ SendFailed =>
                r.err.fmt = "HTTP request failed: %v" /\ r.err.cause = env.cause
          /\ ReadFailed =>
                /\ r.err = LibError(env.cause)
                /\ r.statusCode = env.status
                /\ r.response = EmptyBody

C8_Witness ==
    /\ pc = "returned" /\ ret.api # <<>> /\ ReadFailed /\ env.status = 500
    /\ ret.api[1].ret.err = LibError("unexpected EOF")
    /\ ret.api[1].ret.statusCode = 500

\* C9: a call sends at most one request; after a transport error or a
\* response with an unexpected status it has returned an error and has sent
\* that one request only.
C9_AtMostOneRequest ==
    pc = "returned" =>
       /\ Len(ret.api) <= 1
       /\ Len(Sent) <= 1
       /\ (SendFailed \/ (GotResponse /\ env.status # WantStatus(call.op))) =>
             (ret.err # nil /\ Len(Sent) = 1)

C9_Witness ==
    pc = "returned" /\ SendFailed /\ ret.err # nil /\ Len(Sent) = 1

\* C10, as claimed: Update returns nil exactly when the transport call
\* succeeded, the status is 200 and the body decodes; a 200 response whose body
\* cannot be decoded gives the decoding error, and a response with another
\* status the unexpected-status error.
C10_UpdateByStatus ==
    Returned("Update") =>
       /\ (ret.err = nil) <=> (BodyRead /\ env.status = 200 /\ Decodable(env.body))
       /\ (GotResponse /\ env.status = 200 /\ ~Decodable(env.body)) =>
             IsDecodingError(ret.err)
       /\ (GotResponse /\ env.status # 200) => IsUnexpectedStatus(ret.err)

\* C10, amended: the last two hold of the responses whose body was read to the
\* end; when reading the body fails Update returns the read error.
C10_UpdateByStatusOnceRead ==
    Returned("Update") =>
       /\ (ret.err = nil) <=> (BodyRead /\ env.status = 200 /\ Decodable(env.body))
       /\ (BodyRead /\ env.status = 200 /\ ~Decodable(env.body)) =>
             IsDecodingError(ret.err)
       /\ (BodyRead /\ env.status # 200) => IsUnexpectedStatus(ret.err)
       /\ ReadFailed => ret.err = LibError(env.cause)

C10_Witness ==
    /\ Returned("Update") /\ BodyRead /\ env.status = 200
    /\ ~Decodable(env.body) /\ IsDecodingError(ret.err)

====
